---- MODULE Spec2Model ----
(***************************************************************************)
(* Model of src/app.py: the transport network (a networkx Graph built by   *)
(* add_edge), validate_graph, and multi_criteria_dijkstra, one step per    *)
(* iteration of its while loop.                                            *)
(***************************************************************************)
EXTENDS Integers, Sequences, FiniteSets, TLC

VARIABLES graph, source, destination, alpha, beta,
          pq, visited, current_cost, node, path, pc, result,
          valid, message, finalized

vars == <<graph, source, destination, alpha, beta,
          pq, visited, current_cost, node, path, pc, result,
          valid, message, finalized>>

\* finalized is a history variable: the stops in the order in which the loop
\* body passed the visited test for them (lines 60-61).

(***************************************************************************)
(* Bounds of the explored inputs.                                          *)
(***************************************************************************)
MaxRoutes == 3
MaxVRoutes == 2
TimeValues == {0, 1}
CostValues == {0, 1}
CoefValues == {0, 1}

(***************************************************************************)
(* Stops are one-letter strings; Python compares them by code point, which *)
(* for "A".."F" is the alphabetical rank.                                  *)
(***************************************************************************)
Rank == [A |-> 1, B |-> 2, C |-> 3, D |-> 4, E |-> 5, F |-> 6]
Stops == {"A", "B", "C", "D"}

StopLess(a, b) == Rank[a] < Rank[b]

Range(s) == {s[i] : i \in DOMAIN s}

\* float("inf"): greater than every weight a search of the model accumulates.
Infinity == 1000000

\* Python's None as an attribute value (attribute numbers are >= 0).
None == 0 - 1

(***************************************************************************)
(* networkx.Graph: nodes in insertion order, per-node neighbours in        *)
(* insertion order, one attribute dict per unordered pair.                 *)
(***************************************************************************)
EmptyGraph == [nodes |-> <<>>, adj |-> <<>>, attr |-> <<>>]

add_node(G, n) ==
    IF n \in Range(G.nodes) THEN G
    ELSE [G EXCEPT !.nodes = Append(@, n), !.adj = @ @@ (n :> <<>>)]

\* dict.update: the keys of new override those of old.
DictUpdate(old, new) == new @@ old

\* A directed graph in place of the undirected one: only u gets v as neighbour.
add_edge_directed(G, u, v, data) ==
    LET G1 == add_node(add_node(G, u), v)
    IN  IF {u, v} \in DOMAIN G1.attr
        THEN [G1 EXCEPT !.attr[{u, v}] = DictUpdate(@, data)]
        ELSE [G1 EXCEPT !.adj[u] = Append(@, v),
                        !.attr = @ @@ ({u, v} :> data)]

add_edge(G, u, v, data) ==
    LET G1 == add_node(add_node(G, u), v)
    IN  IF {u, v} \in DOMAIN G1.attr
        THEN [G1 EXCEPT !.attr[{u, v}] = DictUpdate(@, data)]
        ELSE IF u = v
        THEN [G1 EXCEPT !.adj[u] = Append(@, u),
                        !.attr = @ @@ ({u} :> data)]
        ELSE [G1 EXCEPT !.adj[u] = Append(@, v),
                        !.adj[v] = Append(@, u),
                        !.attr = @ @@ ({u, v} :> data)]

number_of_nodes(G) == Len(G.nodes)
number_of_edges(G) == Cardinality(DOMAIN G.attr)
has_node(G, n) == n \in Range(G.nodes)
neighbors(G, n) == G.adj[n]

RECURSIVE EdgesFrom(_, _, _)
\* Graph.edges(data=True): each node in insertion order, each of its
\* neighbours not already reported from the other end.
EdgesFrom(G, i, seen) ==
    IF i > Len(G.nodes) THEN <<>>
    ELSE LET n == G.nodes[i]
             ns == SelectSeq(G.adj[n], LAMBDA m : m \notin seen)
         IN  [k \in 1..Len(ns) |-> <<n, ns[k], G.attr[{n, ns[k]}]>>]
             \o EdgesFrom(G, i + 1, seen \cup {n})

edges(G) == EdgesFrom(G, 1, {})

RECURSIVE BuildGraph(_)
\* for u, v, time, cost, distance in routes: G.add_edge(u, v, time=..., ...)
BuildGraph(routes) ==
    IF routes = <<>> THEN EmptyGraph
    ELSE LET r == routes[Len(routes)]
         IN  add_edge(BuildGraph(SubSeq(routes, 1, Len(routes) - 1)),
                      r[1], r[2],
                      [time |-> r[3], cost |-> r[4], distance |-> r[5]])

DemoRoutes ==
    << <<"A", "B", 10, 5, 3>>,
       <<"A", "C", 15, 4, 5>>,
       <<"B", "D", 12, 6, 4>>,
       <<"C", "D", 8, 3, 2>>,
       <<"C", "E", 10, 5, 4>>,
       <<"D", "E", 6, 2, 1>>,
       <<"D", "F", 15, 6, 5>>,
       <<"E", "F", 8, 3, 2>> >>

build_transport_graph == BuildGraph(DemoRoutes)

(***************************************************************************)
(* validate_graph: a pair <<ok, message>>; a message is a tuple of its     *)
(* text and, for a missing weight, the two stops of the edge.              *)
(***************************************************************************)
NoNodesMsg == <<"Graph has no nodes">>
NoEdgesMsg == <<"Graph has no edges">>
MissingMsg(u, v) == <<"Missing weights on edge", u, v>>
SuccessMsg == <<"Graph validation successful. Module-1 output is complete and ready to be used by Module-2.">>

MissingWeights(data) ==
    \/ "time" \notin DOMAIN data
    \/ "cost" \notin DOMAIN data
    \/ "distance" \notin DOMAIN data

\* The edge count tested before the node count.
validate_graph_edges_first(G) ==
    IF number_of_edges(G) = 0 THEN <<FALSE, NoEdgesMsg>>
    ELSE IF number_of_nodes(G) = 0 THEN <<FALSE, NoNodesMsg>>
    ELSE LET es == edges(G)
             bad == {i \in DOMAIN es : MissingWeights(es[i][3])}
         IN  IF bad # {}
             THEN LET i == CHOOSE k \in bad : \A j \in bad : k <= j
                  IN  <<FALSE, MissingMsg(es[i][1], es[i][2])>>
             ELSE <<TRUE, SuccessMsg>>

validate_graph(G) ==
    IF number_of_nodes(G) = 0 THEN <<FALSE, NoNodesMsg>>
    ELSE IF number_of_edges(G) = 0 THEN <<FALSE, NoEdgesMsg>>
    ELSE LET es == edges(G)
             bad == {i \in DOMAIN es : MissingWeights(es[i][3])}
         IN  IF bad # {}
             THEN LET i == CHOOSE k \in bad : \A j \in bad : k <= j
                  IN  <<FALSE, MissingMsg(es[i][1], es[i][2])>>
             ELSE <<TRUE, SuccessMsg>>

(***************************************************************************)
(* heapq over tuples (cost, node, path).  pq is kept in push order; heappop *)
(* returns the least entry under Python's tuple comparison, which is what  *)
(* a binary heap returns whatever its internal layout.                     *)
(***************************************************************************)
RECURSIVE PathLess(_, _)
\* list < list: lexicographic, a proper prefix is smaller.
PathLess(p, q) ==
    IF q = <<>> THEN FALSE
    ELSE IF p = <<>> THEN TRUE
    ELSE IF p[1] = q[1] THEN PathLess(Tail(p), Tail(q))
    ELSE StopLess(p[1], q[1])

\* tuple < tuple on (cost, node, path).
EntryLess(e, f) ==
    \/ e[1] < f[1]
    \/ e[1] = f[1] /\ e[2] # f[2] /\ StopLess(e[2], f[2])
    \/ e[1] = f[1] /\ e[2] = f[2] /\ PathLess(e[3], f[3])

\* A plain queue in place of the heap: the oldest entry.
HeapFirstIndex(h) == 1

\* A heap keyed on (cost, push counter): the oldest entry of least cost.
HeapStableIndex(h) ==
    CHOOSE i \in DOMAIN h :
        \A j \in DOMAIN h : h[i][1] <= h[j][1] /\ (h[j][1] = h[i][1] => i <= j)

HeapMinIndex(h) ==
    CHOOSE i \in DOMAIN h :
        \A j \in DOMAIN h : ~EntryLess(h[j], h[i]) /\ (h[j] = h[i] => i <= j)

\* A peek in place of a pop: the entry stays in the heap.
HeapKeep(h, i) == h

HeapRemove(h, i) == SubSeq(h, 1, i - 1) \o SubSeq(h, i + 1, Len(h))

heappop_item(h) == h[HeapMinIndex(h)]
heappop_rest(h) == HeapRemove(h, HeapMinIndex(h))
heappush(h, e) == Append(h, e)

(***************************************************************************)
(* multi_criteria_dijkstra                                                 *)
(***************************************************************************)
\* The two coefficients exchanged.
EdgeWeightSwapped(G, n, m, a, b) ==
    LET edge == G.attr[{n, m}]
    IN  a * edge["cost"] + b * edge["time"]

\* The cost term reads the time attribute.
EdgeWeightTimeTwice(G, n, m, a, b) ==
    LET edge == G.attr[{n, m}]
    IN  a * edge["time"] + b * edge["time"]

EdgeWeight(G, n, m, a, b) ==
    LET edge == G.attr[{n, m}]
    IN  a * edge["time"] + b * edge["cost"]

\* The for loop of lines 66-70: one push per neighbour not in visited, in
\* neighbour order.
Pushes(G, n, vis, cost, p, a, b) ==
    LET ns == SelectSeq(neighbors(G, n), LAMBDA m : m \notin vis)
    IN  [k \in 1..Len(ns) |-> <<cost + EdgeWeight(G, n, ns[k], a, b), ns[k], p>>]

\* The visited test of line 57 left out.
NeverStale(n, vis) == FALSE

IsStale(n, vis) == n \in vis

StartSearch ==
    /\ pq = << <<0, source, <<>> >> >>
    /\ visited = {}
    /\ current_cost = 0
    /\ node = source
    /\ path = <<>>
    /\ pc = "loop"
    /\ result = <<>>
    /\ finalized = <<>>
    /\ valid = FALSE
    /\ message = <<>>

\* line 57-58: the popped stop is already visited.
Discard ==
    /\ pc = "loop"
    /\ pq # <<>>
    /\ LET e == heappop_item(pq)
       IN  /\ IsStale(e[2], visited)
           /\ pq' = heappop_rest(pq)
           /\ current_cost' = e[1]
           /\ node' = e[2]
           /\ path' = e[3]
    /\ UNCHANGED <<graph, source, destination, alpha, beta, visited, pc,
                   result, valid, message, finalized>>

\* lines 60-64: the popped stop is the destination.
ReturnPath ==
    /\ pc = "loop"
    /\ pq # <<>>
    /\ LET e == heappop_item(pq)
       IN  /\ ~IsStale(e[2], visited)
           /\ e[2] = destination
           /\ pq' = heappop_rest(pq)
           /\ current_cost' = e[1]
           /\ node' = e[2]
           /\ path' = Append(e[3], e[2])
           /\ visited' = visited \cup {e[2]}
           /\ finalized' = Append(finalized, e[2])
           /\ result' = <<e[1], Append(e[3], e[2])>>
           /\ pc' = "done"
    /\ UNCHANGED <<graph, source, destination, alpha, beta, valid, message>>

\* lines 60-70: the popped stop is finalized and its neighbours are pushed.
Expand ==
    /\ pc = "loop"
    /\ pq # <<>>
    /\ LET e == heappop_item(pq)
       IN  /\ ~IsStale(e[2], visited)
           /\ e[2] # destination
           /\ has_node(graph, e[2])
           /\ current_cost' = e[1]
           /\ node' = e[2]
           /\ path' = Append(e[3], e[2])
           /\ visited' = visited \cup {e[2]}
           /\ finalized' = Append(finalized, e[2])
           /\ pq' = heappop_rest(pq)
                    \o Pushes(graph, e[2], visited \cup {e[2]}, e[1],
                              Append(e[3], e[2]), alpha, beta)
    /\ UNCHANGED <<graph, source, destination, alpha, beta, pc, result,
                   valid, message>>

\* line 66: graph.neighbors(node) raises NetworkXError for a node that is
\* not in the graph.
RaiseUnknown ==
    /\ pc = "loop"
    /\ pq # <<>>
    /\ LET e == heappop_item(pq)
       IN  /\ ~IsStale(e[2], visited)
           /\ e[2] # destination
           /\ ~has_node(graph, e[2])
           /\ pq' = heappop_rest(pq)
           /\ current_cost' = e[1]
           /\ node' = e[2]
           /\ path' = Append(e[3], e[2])
           /\ visited' = visited \cup {e[2]}
           /\ finalized' = Append(finalized, e[2])
           /\ pc' = "raised"
    /\ UNCHANGED <<graph, source, destination, alpha, beta, result,
                   valid, message>>

\* line 72: the frontier is empty.
ReturnInf ==
    /\ pc = "loop"
    /\ pq = <<>>
    /\ result' = <<Infinity, <<>> >>
    /\ pc' = "done"
    /\ UNCHANGED <<graph, source, destination, alpha, beta, pq, visited,
                   current_cost, node, path, valid, message, finalized>>

(***************************************************************************)
(* Inputs of the search: every network of at most MaxRoutes routes over    *)
(* Stops (routes added in ascending or descending pair order), and the     *)
(* demonstration network with the choices the page offers (lines 162-174). *)
(***************************************************************************)
Pairs == {p \in Stops \X Stops : StopLess(p[1], p[2])}

PairLess(p, q) == StopLess(p[1], q[1]) \/ (p[1] = q[1] /\ StopLess(p[2], q[2]))

RECURSIVE SortPairs(_)
SortPairs(S) ==
    IF S = {} THEN <<>>
    ELSE LET m == CHOOSE p \in S : \A q \in S \ {p} : PairLess(p, q)
         IN  <<m>> \o SortPairs(S \ {m})

Reverse(s) == [k \in 1..Len(s) |-> s[Len(s) + 1 - k]]

RouteList(S, t, c, descending) ==
    LET asc == SortPairs(S)
        ps == IF descending THEN Reverse(asc) ELSE asc
    IN  [k \in 1..Len(ps) |-> <<ps[k][1], ps[k][2], t[ps[k]], c[ps[k]], 1>>]

\* Orders: the orders of adding the routes that are drawn (FALSE ascending,
\* TRUE descending by pair); Coefs: the pairs (alpha, beta) that are drawn.
InitSmall(Orders, Coefs) ==
    /\ \E S \in SUBSET Pairs :
         /\ Cardinality(S) <= MaxRoutes
         /\ \E t \in [S -> TimeValues], c \in [S -> CostValues],
                 descending \in Orders :
              graph = BuildGraph(RouteList(S, t, c, descending))
    /\ source \in Stops
    /\ destination \in Stops
    /\ \E ab \in Coefs : alpha = ab[1] /\ beta = ab[2]
    /\ StartSearch

Preferences == {"Fastest Route (Time)", "Cheapest Route (Cost)"}

\* line 174: (1, 0) if "Time" in preference else (0, 1)
Coefficients(preference) ==
    IF preference = "Fastest Route (Time)" THEN <<1, 0>> ELSE <<0, 1>>

InitDemo ==
    /\ graph = build_transport_graph
    /\ source \in Range(graph.nodes)
    /\ destination \in Range(graph.nodes)
    /\ \E preference \in Preferences :
         /\ alpha = Coefficients(preference)[1]
         /\ beta = Coefficients(preference)[2]
    /\ StartSearch

Init == InitSmall(BOOLEAN, CoefValues \X CoefValues) \/ InitDemo

\* The runs whose termination is checked: routes in ascending order, every
\* weight zero (alpha = beta = 0) or time + cost (alpha = beta = 1).
InitFair == InitSmall({FALSE}, {<<0, 0>>, <<1, 1>>}) \/ InitDemo

Next == Discard \/ ReturnPath \/ Expand \/ RaiseUnknown \/ ReturnInf

Spec == Init /\ [][Next]_vars

\* The loop is sequential code: it keeps running until it returns or raises.
SpecFair == InitFair /\ [][Next]_vars /\ WF_vars(Next)

(***************************************************************************)
(* Inputs of validate_graph: networks over VStops whose routes carry any   *)
(* subset of the three attributes, each a number or None, with or without  *)
(* a stop that no route touches; the "Validate Graph" button (lines        *)
(* 145-150) stores the pair validate_graph returns.                        *)
(***************************************************************************)
VStops == {"A", "B", "C"}
VPairs == {p \in VStops \X VStops : StopLess(p[1], p[2])}
AttrNames == {"time", "cost", "distance"}
AttrValues == {None, 1}
Dicts == UNION {[K -> AttrValues] : K \in SUBSET AttrNames}

RECURSIVE BuildAttributed(_, _)
BuildAttributed(G, routes) ==
    IF routes = <<>> THEN G
    ELSE LET r == routes[Len(routes)]
         IN  add_edge(BuildAttributed(G, SubSeq(routes, 1, Len(routes) - 1)),
                      r[1][1], r[1][2], r[2])

InitValidate ==
    /\ \E k \in 0..MaxVRoutes, isolated \in BOOLEAN :
         \E routes \in [1..k -> VPairs \X Dicts] :
            graph = BuildAttributed(
                        IF isolated THEN add_node(EmptyGraph, "D")
                        ELSE EmptyGraph,
                        routes)
    /\ source = "A"
    /\ destination = "A"
    /\ alpha = 0
    /\ beta = 0
    /\ pq = <<>>
    /\ visited = {}
    /\ current_cost = 0
    /\ node = "A"
    /\ path = <<>>
    /\ pc = "idle"
    /\ result = <<>>
    /\ finalized = <<>>
    /\ valid = FALSE
    /\ message = <<>>

Validate ==
    /\ pc = "idle"
    /\ valid' = validate_graph(graph)[1]
    /\ message' = validate_graph(graph)[2]
    /\ pc' = "validated"
    /\ UNCHANGED <<graph, source, destination, alpha, beta, pq, visited,
                   current_cost, node, path, result, finalized>>

NextValidate == Validate

SpecValidate == InitValidate /\ [][NextValidate]_vars

(***************************************************************************)
(* Reference notions the properties are stated in, read off the routes of  *)
(* the network and independent of the search.                              *)
(***************************************************************************)
InNetwork(s) == s \in Range(graph.nodes)
Joined(a, b) == {a, b} \in DOMAIN graph.attr
RouteWeight(a, b) ==
    alpha * graph.attr[{a, b}]["time"] + beta * graph.attr[{a, b}]["cost"]

Min(S) == CHOOSE x \in S : \A y \in S : x <= y

\* Least walk weights are kept as a set of pairs <<stop, weight>>.
WeightIn(D, n) == (CHOOSE p \in D : p[1] = n)[2]

\* One round of relaxation of the least walk weights from source.
RelaxOnce(D) ==
    {<<n, Min({WeightIn(D, n)} \cup
              {p[2] + RouteWeight(p[1], n) :
                   p \in {q \in D : Joined(q[1], n) /\ q[2] < Infinity}})>> :
        n \in Range(graph.nodes)}

RECURSIVE Relaxed(_, _)
Relaxed(D, k) == IF k = 0 THEN D ELSE Relaxed(RelaxOnce(D), k - 1)

\* Least weight of a path from source to stop n of the network, Infinity
\* where there is none.
MinWeight(n) ==
    WeightIn(Relaxed({<<m, IF m = source THEN 0 ELSE Infinity>> :
                         m \in Range(graph.nodes)},
                     Len(graph.nodes)),
             n)

RECURSIVE ReachableFrom(_, _)
ReachableFrom(S, k) ==
    IF k = 0 THEN S
    ELSE ReachableFrom(S \cup {n \in Range(graph.nodes) : \E m \in S : Joined(m, n)},
                       k - 1)

Connected(a, b) == b \in ReachableFrom({a}, Len(graph.nodes))

RECURSIVE PathWeight(_)
PathWeight(p) ==
    IF Len(p) <= 1 THEN 0
    ELSE RouteWeight(p[1], p[2]) + PathWeight(Tail(p))

Returned == pc = "done"
Unreachable == <<Infinity, <<>> >>

\* C1: for stops of the network joined by a path, the returned weight is the
\* least sum of alpha*time + beta*cost over the paths from source to
\* destination.
C1_MinimumWeight ==
    (Returned /\ InNetwork(source) /\ InNetwork(destination)
       /\ Connected(source, destination))
    => result[1] = MinWeight(destination)

\* C1 witness: a search returned a path of three or more stops although a
\* direct route joins source and destination.
C1_Witness ==
    /\ Returned
    /\ InNetwork(source) /\ InNetwork(destination)
    /\ source # destination
    /\ Joined(source, destination)
    /\ Len(result[2]) >= 3
    /\ result[1] < RouteWeight(source, destination)

\* C2: a returned non-empty path starts at source, ends at destination, has
\* a route between every two consecutive stops, and the returned weight is
\* the sum of alpha*time + beta*cost over them.
C2_PathConsistent ==
    (Returned /\ result[2] # <<>>)
    => LET p == result[2]
       IN  /\ p[1] = source
           /\ p[Len(p)] = destination
           /\ \A i \in 1..(Len(p) - 1) : Joined(p[i], p[i + 1])
           /\ result[1] = PathWeight(p)

\* C2 witness: a returned path of three or more stops whose weight has both
\* a time and a cost share.
C2_Witness ==
    /\ Returned
    /\ Len(result[2]) >= 3
    /\ alpha > 0 /\ beta > 0
    /\ \E i \in 1..(Len(result[2]) - 1) :
          graph.attr[{result[2][i], result[2][i + 1]}]["time"]
             # graph.attr[{result[2][i], result[2][i + 1]}]["cost"]
    /\ result[1] > 0

\* C4: for two stops of the network, the search returns (infinity, empty
\* path) exactly when no path joins them.
C4_UnreachableIffNoPath ==
    (Returned /\ InNetwork(source) /\ InNetwork(destination))
    => (result = Unreachable <=> ~Connected(source, destination))

\* C4 witness: a search between two stops of the network returned
\* (infinity, empty path).
C4_Witness ==
    /\ Returned
    /\ InNetwork(source) /\ InNetwork(destination)
    /\ result = Unreachable

DemoQuery ==
    /\ graph = build_transport_graph
    /\ source = "A"
    /\ destination = "F"
    /\ alpha = 1
    /\ beta = 0

\* C5 as stated: on the demonstration network the time-optimal search from
\* A to F returns weight 29 via [A, C, D, E, F].
C5_AsStated ==
    (DemoQuery /\ Returned) => result = <<29, <<"A", "C", "D", "E", "F">> >>

\* C5 amended: on the demonstration network the time-optimal search from A
\* to F returns weight 33 via [A, C, E, F].
C5_DemoTimeOptimal ==
    (DemoQuery /\ Returned) => result = <<33, <<"A", "C", "E", "F">> >>

\* C5 witness: the time-optimal search from A to F on the demonstration
\* network has returned.
C5_Witness == DemoQuery /\ Returned /\ result # <<>>

\* C3 as stated: when source or destination is not a stop of the network the
\* search fails with an unknown-stop error and returns no result.
C3_UnknownStopFails ==
    (~InNetwork(source) \/ ~InNetwork(destination))
    => (pc # "done" /\ result = <<>>)

\* C6: validate_graph checks in a fixed order: no stops gives "Graph has no
\* nodes"; stops but no routes gives "Graph has no edges"; routes that all
\* have time, cost and distance give success; the no-nodes message is never
\* given with a stop present nor the no-edges message with a route present.
C6_ValidateOrder ==
    pc = "validated"
    => /\ graph.nodes = <<>> => <<valid, message>> = <<FALSE, NoNodesMsg>>
       /\ (graph.nodes # <<>> /\ DOMAIN graph.attr = {})
             => <<valid, message>> = <<FALSE, NoEdgesMsg>>
       /\ (DOMAIN graph.attr # {}
             /\ \A e \in DOMAIN graph.attr : AttrNames \subseteq DOMAIN graph.attr[e])
             => <<valid, message>> = <<TRUE, SuccessMsg>>
       /\ message = NoNodesMsg => graph.nodes = <<>>
       /\ message = NoEdgesMsg => DOMAIN graph.attr = {}

\* C6 witness: a network with a stop and no route was validated.
C6_Witness ==
    /\ pc = "validated"
    /\ graph.nodes # <<>>
    /\ DOMAIN graph.attr = {}
    /\ message = NoEdgesMsg

FullyAttributed(data) ==
    \A k \in AttrNames : k \in DOMAIN data /\ data[k] # None

\* C7 as stated: for a network with a route, validate_graph reports missing
\* weights whenever some route has an attribute absent or null, and returns
\* ok only if every route has all three present and non-null.
C7_NullIsMissing ==
    (pc = "validated" /\ DOMAIN graph.attr # {})
    => /\ valid <=> \A e \in DOMAIN graph.attr : FullyAttributed(graph.attr[e])
       /\ ~valid => \E e \in DOMAIN graph.attr :
                       /\ ~FullyAttributed(graph.attr[e])
                       /\ \E a \in e, b \in e : e = {a, b} /\ message = MissingMsg(a, b)

\* A step of the loop that pops: the frontier is not empty.
Pops == pc = "loop" /\ pq # <<>>

\* Entry j of the frontier is the one the step popped: its cost and stop
\* are the new current_cost and node, and its path is the new path, with the
\* stop appended when the stop was not yet visited.
PoppedIs(j) ==
    /\ current_cost' = pq[j][1]
    /\ node' = pq[j][2]
    /\ \/ path' = pq[j][3]
       \/ path' = Append(pq[j][3], pq[j][2])

\* C8 as stated: among frontier entries of the same accumulated weight, the
\* one pushed earlier is popped before the one pushed later.
C8_InsertionOrder ==
    [][Pops => \A j \in DOMAIN pq :
                  PoppedIs(j) => \A i \in 1..(j - 1) : pq[i][1] # pq[j][1]]_vars

\* C8 amended: among frontier entries of the same accumulated weight, the
\* one with the smaller stop identifier is popped first and, for the same
\* stop, the one whose partial path is smaller in list order; the order of
\* pushing plays no part.
C8_TupleOrder ==
    [][Pops => \A j \in DOMAIN pq :
                  PoppedIs(j) =>
                     \A i \in DOMAIN pq \ {j} :
                        pq[i][1] = pq[j][1] =>
                           \/ StopLess(pq[j][2], pq[i][2])
                           \/ pq[j][2] = pq[i][2] /\ PathLess(pq[j][3], pq[i][3])]_vars

IsProperPrefix(p, q) == Len(p) < Len(q) /\ SubSeq(q, 1, Len(p)) = p

\* C8 witness: the entry just popped and finalized was pushed after an entry
\* of the same weight that is still in the frontier (that entry's path is a
\* proper prefix of the popped entry's path, so it was pushed at an earlier
\* finalization) and has the smaller stop identifier.
C8_Witness ==
    /\ pc = "loop"
    /\ path # <<>>
    /\ path[Len(path)] = node
    /\ \E i \in DOMAIN pq :
          /\ pq[i][1] = current_cost
          /\ StopLess(node, pq[i][2])
          /\ IsProperPrefix(pq[i][3], SubSeq(path, 1, Len(path) - 1))

NoDuplicates(s) == \A i \in DOMAIN s : \A j \in DOMAIN s : s[i] = s[j] => i = j

\* C9: each stop is finalized at most once; a popped entry whose stop is
\* already visited is discarded without a push and without a change of
\* visited; no entry is pushed for a neighbour that is already visited.
C9_FinalizedOnce ==
    /\ []NoDuplicates(finalized)
    /\ [][Pops =>
            IF node' \in visited
            THEN /\ visited' = visited
                 /\ finalized' = finalized
                 /\ Len(pq') = Len(pq) - 1
                 /\ Range(pq') \subseteq Range(pq)
            ELSE /\ visited' = visited \cup {node'}
                 /\ finalized' = Append(finalized, node')
                 /\ \A k \in Len(pq)..Len(pq') : pq'[k][2] \notin visited']_vars

\* C9 witness: a popped entry for an already finalized stop has just been
\* discarded.
C9_Witness ==
    /\ pc = "loop"
    /\ node \in visited
    /\ path # <<>>
    /\ path[Len(path)] # node
    /\ \E i \in DOMAIN finalized : finalized[i] = node /\ i < Len(finalized)

\* C10: every search from a stop of the network terminates, by returning
\* the path to the destination or by emptying the frontier.
C10_Terminates == InNetwork(source) => <>(pc = "done")

HasCycle ==
    \E a \in Range(graph.nodes), b \in Range(graph.nodes), c \in Range(graph.nodes) :
        /\ a # b /\ b # c /\ a # c
        /\ Joined(a, b) /\ Joined(b, c) /\ Joined(a, c)

\* C10 witness: a search with alpha = beta = 0 over a network with a cycle
\* has returned after finalizing every stop of the cycle.
C10_Witness ==
    /\ pc = "done"
    /\ alpha = 0 /\ beta = 0
    /\ InNetwork(source)
    /\ HasCycle
    /\ Len(finalized) >= 3

====
